---- MODULE Spec2Model ----
(***************************************************************************)
(* A model of sudopy (src/python/sudopy.py): the Puzzle grid with its      *)
(* validated write, and the recursive backtracking solver _solve_puzzle.   *)
(*                                                                         *)
(* Python objects are references, so the Puzzle objects live in a heap     *)
(* (object id -> 9x9 table) and a solver frame holds the ids of the object *)
(* it was handed and of the deepcopy it works on.                          *)
(***************************************************************************)
EXTENDS Integers, Sequences, FiniteSets, TLC

VARIABLES
    heap,     \* object id -> Puzzle.data (a 9x9 table, data[row][col])
    clues,    \* the table the Puzzle was constructed from (Puzzle.__init__)
    stack,    \* the active invocations of _solve_puzzle, outermost first
    ret,      \* the value the last finished invocation returned
    pc,       \* where Puzzle.solve is: "idle", "solving", "done", "raised"
    last,     \* the last call of the grid API and its outcome
    nsets     \* how many times puzzle[row, col] = value was called

vars == <<heap, clues, stack, ret, pc, last, nsets>>

----------------------------------------------------------------------------
(* Bounds of the model.                                                    *)

\* how many cells of the solved base grid the solver's inputs vary
MaxBlank == 4
\* how many times a behaviour calls puzzle[row, col] = value
MaxSets == 2
\* how far outside 0..9 the values handed to the grid API reach
Excess == 1

----------------------------------------------------------------------------
(* The grid.                                                               *)

\* the side of the grid: range(9), and the 9 of next_rc
N == 9
Idx == 0 .. (N - 1)

\* the object Puzzle.solve is called on
Self == 0

AllZero == [r \in Idx |-> [c \in Idx |-> 0]]

\* the grid the solver returns for the all-zero grid, used as the base of
\* the inputs
SolvedRows ==
    << <<1,2,3,4,5,6,7,8,9>>,
       <<4,5,6,7,8,9,1,2,3>>,
       <<7,8,9,1,2,3,4,5,6>>,
       <<2,1,4,3,6,5,8,9,7>>,
       <<3,6,5,8,9,7,2,1,4>>,
       <<8,9,7,2,1,4,3,6,5>>,
       <<5,3,1,6,4,2,9,7,8>>,
       <<6,4,2,9,7,8,5,3,1>>,
       <<9,7,8,5,3,1,6,4,2>> >>

Solved == [r \in Idx |-> [c \in Idx |-> SolvedRows[r + 1][c + 1]]]

\* Puzzle.__init__: a 9x9 table of integers in 0..9, and nothing more
Constructible(d) ==
    /\ DOMAIN d = Idx
    /\ \A r \in Idx : DOMAIN d[r] = Idx /\ \A c \in Idx : d[r][c] \in 0 .. 9

\* the base grid with the first k cells of holes given values from vals
Family(holes, k, vals) ==
    { [r \in Idx |-> [c \in Idx |->
          IF \E j \in 1 .. k : holes[j] = <<r, c>>
          THEN f[CHOOSE j \in 1 .. k : holes[j] = <<r, c>>]
          ELSE Solved[r][c]]] : f \in [1 .. k -> vals] }

\* Puzzle.__getitem__
getitem(d, row, col) == d[row][col]

\* a mutant of check_valid_move: the 3x3 block is not looked at
check_valid_move_no_block(d, row, col, v) ==
    ~ \E i \in Idx : getitem(d, i, col) = v \/ getitem(d, row, i) = v

\* a mutant of check_valid_move: the column is not looked at
check_valid_move_no_column(d, row, col, v) ==
    LET sq_row == (row \div 3) * 3
        sq_col == (col \div 3) * 3
    IN  IF \E i \in Idx : getitem(d, row, i) = v
        THEN FALSE
        ELSE ~ \E i \in sq_row .. (sq_row + 2), j \in sq_col .. (sq_col + 2) :
                   getitem(d, i, j) = v

\* a mutant of check_valid_move: the cell (row, col) itself is passed over
check_valid_move_other_cells(d, row, col, v) ==
    LET sq_row == (row \div 3) * 3
        sq_col == (col \div 3) * 3
    IN  /\ ~ \E i \in Idx \ {row} : getitem(d, i, col) = v
        /\ ~ \E i \in Idx \ {col} : getitem(d, row, i) = v
        /\ ~ \E i \in sq_row .. (sq_row + 2), j \in sq_col .. (sq_col + 2) :
                 <<i, j>> # <<row, col>> /\ getitem(d, i, j) = v

\* Puzzle.check_valid_move
check_valid_move(d, row, col, v) ==
    LET sq_row == (row \div 3) * 3
        sq_col == (col \div 3) * 3
    IN  IF \E i \in Idx : getitem(d, i, col) = v \/ getitem(d, row, i) = v
        THEN FALSE
        ELSE IF \E i \in sq_row .. (sq_row + 2), j \in sq_col .. (sq_col + 2) :
                    getitem(d, i, j) = v
        THEN FALSE
        ELSE TRUE

\* a mutant of setitem: the value is written although the move is invalid
setitem_unchecked(d, row, col, value) ==
    [exc  |-> IF check_valid_move(d, row, col, value) THEN "none" ELSE "InvalidMove",
     data |-> [d EXCEPT ![row][col] = value]]

\* Puzzle.__setitem__: the exception raised, and the table afterwards
setitem(d, row, col, value) ==
    IF ~ check_valid_move(d, row, col, value)
    THEN [exc |-> "InvalidMove", data |-> d]
    ELSE [exc |-> "none", data |-> [d EXCEPT ![row][col] = value]]

RECURSIVE SumTo(_, _)
SumTo(f, n) == IF n < 0 THEN 0 ELSE f[n] + SumTo(f, n - 1)

\* a mutant of complete: only the rows are summed
complete_rows_only(d) ==
    \A i \in Idx : SumTo(d[i], N - 1) = 45

\* Puzzle.complete
complete(d) ==
    LET rowwise_sums    == [i \in Idx |-> SumTo(d[i], N - 1)]
        columnwise_sums == [j \in Idx |-> SumTo([i \in Idx |-> d[i][j]], N - 1)]
    IN  (\A j \in Idx : columnwise_sums[j] = 45)
        /\ (\A i \in Idx : rowwise_sums[i] = 45)

----------------------------------------------------------------------------
(* The grid API, called on the object Self.                                *)

data == heap[Self]

\* the constructed grids the calls are made on: the base grid with the
\* cells of GridHoles empty, as in the base grid (3) or equal to another
\* cell of the row (7)
GridHoles == << <<0, 2>>, <<5, 6>> >>
GridHoleVals == {0, 3, 7}
GridInputs == Family(GridHoles, Len(GridHoles), GridHoleVals)

\* the coordinates and values the calls are made with
SetRows == {0, 5}
CheckRows == {0, 1, 5}
ProbeCols == {0, 2, 6}
Vals == (0 - Excess) .. (9 + Excess)

NoCall == [op |-> "none", row |-> 0, col |-> 0, value |-> 0,
           result |-> "None", exc |-> "none"]

\* puzzle[row, col] = value
SetItem(row, col, value) ==
    /\ pc = "idle"
    /\ nsets < MaxSets
    /\ LET r == setitem(data, row, col, value)
       IN  /\ heap' = [heap EXCEPT ![Self] = r.data]
           /\ last' = [op |-> "setitem", row |-> row, col |-> col,
                       value |-> value, result |-> "None", exc |-> r.exc]
    /\ nsets' = nsets + 1
    /\ UNCHANGED <<clues, stack, ret, pc>>

\* puzzle.check_valid_move(row, col, value)
CheckValidMove(row, col, value) ==
    /\ pc = "idle"
    /\ last' = [op |-> "check_valid_move", row |-> row, col |-> col,
                value |-> value,
                result |-> IF check_valid_move(data, row, col, value)
                           THEN "True" ELSE "False",
                exc |-> "none"]
    /\ UNCHANGED <<heap, clues, stack, ret, pc, nsets>>

\* puzzle.complete()
Complete ==
    /\ pc = "idle"
    /\ last' = [NoCall EXCEPT !.op = "complete",
                  !.result = IF complete(data) THEN "True" ELSE "False"]
    /\ UNCHANGED <<heap, clues, stack, ret, pc, nsets>>

NoRet == [kind |-> "none", ref |-> Self]

InitGrid ==
    /\ clues \in GridInputs
    /\ Constructible(clues)
    /\ heap = [o \in {Self} |-> clues]
    /\ stack = << >>
    /\ ret = NoRet
    /\ pc = "idle"
    /\ last = NoCall
    /\ nsets = 0

NextGrid ==
    \/ \E row \in SetRows, col \in ProbeCols, value \in Vals :
           SetItem(row, col, value)
    \/ Complete

\* sequences of validated writes, with complete() asked in between
SpecGrid == InitGrid /\ [][NextGrid]_vars

\* the grids check_valid_move is asked about
CheckHoles == << <<0, 2>>, <<5, 6>>, <<0, 6>>, <<5, 2>> >>
CheckInputs == Family(CheckHoles, Len(CheckHoles), GridHoleVals)

InitCheck ==
    /\ clues \in CheckInputs
    /\ Constructible(clues)
    /\ heap = [o \in {Self} |-> clues]
    /\ stack = << >>
    /\ ret = NoRet
    /\ pc = "idle"
    /\ last = NoCall
    /\ nsets = 0

NextCheck ==
    \E row \in CheckRows, col \in ProbeCols, value \in Vals :
        CheckValidMove(row, col, value)

\* check_valid_move asked about constructed grids
SpecCheck == InitCheck /\ [][NextCheck]_vars

----------------------------------------------------------------------------
(* The solver: _solve_puzzle as a stack of frames, and Puzzle.solve.       *)

\* a mutant of next_rc: the cursor moves on by two cells
next_rc_twice(row, col) ==
    IF col + 2 >= N THEN <<row + 1, col + 2 - N>> ELSE <<row, col + 2>>

\* next_rc
next_rc(row, col) ==
    IF col + 1 >= N THEN <<row + 1, col + 1 - N>> ELSE <<row, col + 1>>

\* a mutant of Candidate: the values are tried from 9 down to 1
CandidateDescending(i) == N - i

\* the value the loop of _solve_puzzle tries at index i: i+1
Candidate(i) == i + 1

\* a mutant of Truthy: every returned value counts as a solution
TruthyAlways(r) == TRUE

\* the test of `if p := _solve_puzzle(...)`: a Puzzle object is true (the
\* class defines neither __bool__ nor __len__), False is not
Truthy(r) == r.kind = "Puzzle"

\* a mutant of CopyRef: no copy is made, the frame works on the object it
\* was handed
NoCopyRef(arg, depth) == arg

\* the object `puzzle = deepcopy(puzzle)` binds in the frame at this depth:
\* a new one
CopyRef(arg, depth) == depth

\* deepcopy: the heap with object new holding a copy of the table of src
deepcopy(h, src, new) ==
    [o \in DOMAIN h \cup {new} |-> IF o = new THEN h[src] ELSE h[o]]

\* the heap without the objects nothing refers to any more
Collect(h, frames, r) ==
    LET live == {Self} \cup {frames[k].puzzle : k \in DOMAIN frames}
                       \cup {frames[k].arg : k \in DOMAIN frames}
                       \cup (IF r.kind = "Puzzle" THEN {r.ref} ELSE {})
    IN  [o \in DOMAIN h \cap live |-> h[o]]

\* the frame of a call _solve_puzzle(arg, row, col), after its line 21.
\* placed and prev are history: whether line 32 has written in this frame,
\* and the table of the frame just before it last did
Frame(arg, row, col, depth) ==
    [arg |-> arg, puzzle |-> CopyRef(arg, depth), row |-> row, col |-> col,
     i |-> 0, at |-> "entry", placed |-> FALSE, prev |-> << >>]

Top == stack[Len(stack)]
Rest == SubSeq(stack, 1, Len(stack) - 1)
Running == pc = "solving" /\ stack # << >>
AtEnd(f) == f.row = N \/ f.col = N

\* a mutant of Blank: no cell is taken for a clue
BlankAlways(f) == TRUE

\* line 27: the cell at the cursor of the frame is blank
Blank(f) == getitem(heap[f.puzzle], f.row, f.col) = 0

\* a mutant of AtLastCell: the last cell is treated like every other
AtLastCellNever(f) == FALSE

\* line 36: the cursor of the frame is at the last cell
AtLastCell(f) == f.row = N - 1 /\ f.col = N - 1

\* a mutant of NextIndex: the loop does not move on
SameIndex(i) == i

\* line 30: the index of the loop after i
NextIndex(i) == i + 1

\* the frame returns r to its caller
Return(r) ==
    /\ stack' = Rest
    /\ ret' = r
    /\ heap' = Collect(heap, Rest, r)

\* the frame calls _solve_puzzle(its puzzle, *next_rc(row, col)) and waits
\* at `at`; h is the heap at the call
Call(h, at) ==
    LET rc == next_rc(Top.row, Top.col)
        f  == Frame(Top.puzzle, rc[1], rc[2], Len(stack) + 1)
        me == IF at = "call"
              THEN [Top EXCEPT !.at = at, !.placed = TRUE,
                               !.prev = heap[Top.puzzle]]
              ELSE [Top EXCEPT !.at = at]
    IN  /\ stack' = Append([stack EXCEPT ![Len(stack)] = me], f)
        /\ heap' = deepcopy(h, Top.puzzle, f.puzzle)
        /\ ret' = NoRet

\* Puzzle.solve, line 92: _solve_puzzle(self, 0, 0) is called
Solve ==
    /\ pc = "idle"
    /\ pc' = "solving"
    /\ LET f == Frame(Self, 0, 0, 1)
       IN  /\ stack' = <<f>>
           /\ heap' = deepcopy(heap, Self, f.puzzle)
    /\ ret' = NoRet
    /\ UNCHANGED <<clues, last, nsets>>

\* lines 23-24: the cursor is past the grid, the copy is returned
ReturnAtEnd ==
    /\ Running /\ Top.at = "entry"
    /\ AtEnd(Top)
    /\ Return([kind |-> "Puzzle", ref |-> Top.puzzle])
    /\ UNCHANGED <<clues, pc, last, nsets>>

\* lines 27-28: the cell is not blank, the next cell is solved
SkipClue ==
    /\ Running /\ Top.at = "entry"
    /\ ~ AtEnd(Top)
    /\ ~ Blank(Top)
    /\ Call(heap, "skip")
    /\ UNCHANGED <<clues, pc, last, nsets>>

\* line 28: what the call for the next cell returned is returned
SkipReturn ==
    /\ Running /\ Top.at = "skip"
    /\ ret.kind # "none"
    /\ Return(ret)
    /\ UNCHANGED <<clues, pc, last, nsets>>

\* line 30: the cell is blank, the loop over the candidates starts
EnterLoop ==
    /\ Running /\ Top.at = "entry"
    /\ ~ AtEnd(Top)
    /\ Blank(Top)
    /\ stack' = [stack EXCEPT ![Len(stack)].at = "loop"]
    /\ UNCHANGED <<heap, clues, ret, pc, last, nsets>>

\* what line 32 does in the frame: puzzle[row, col] = i+1
Attempt == setitem(heap[Top.puzzle], Top.row, Top.col, Candidate(Top.i))

\* lines 32-34: the write raises InvalidMove, the next candidate is tried
CandidateRejected ==
    /\ Running /\ Top.at = "loop"
    /\ Top.i < N
    /\ Attempt.exc = "InvalidMove"
    /\ stack' = [stack EXCEPT ![Len(stack)].i = NextIndex(Top.i)]
    /\ heap' = [heap EXCEPT ![Top.puzzle] = Attempt.data]
    /\ UNCHANGED <<clues, ret, pc, last, nsets>>

\* lines 32, 36-37: the write succeeds at the last cell, the copy is returned
CandidateLast ==
    /\ Running /\ Top.at = "loop"
    /\ Top.i < N
    /\ Attempt.exc = "none"
    /\ AtLastCell(Top)
    /\ stack' = Rest
    /\ ret' = [kind |-> "Puzzle", ref |-> Top.puzzle]
    /\ heap' = Collect([heap EXCEPT ![Top.puzzle] = Attempt.data], Rest, ret')
    /\ UNCHANGED <<clues, pc, last, nsets>>

\* lines 32, 39: the write succeeds, the next cell is solved on the copy
CandidateRecurse ==
    /\ Running /\ Top.at = "loop"
    /\ Top.i < N
    /\ Attempt.exc = "none"
    /\ ~ AtLastCell(Top)
    /\ Call([heap EXCEPT ![Top.puzzle] = Attempt.data], "call")
    /\ UNCHANGED <<clues, pc, last, nsets>>

\* lines 39-40: the call returned a true value, which is returned
ChildSucceeded ==
    /\ Running /\ Top.at = "call"
    /\ ret.kind # "none"
    /\ Truthy(ret)
    /\ Return(ret)
    /\ UNCHANGED <<clues, pc, last, nsets>>

\* line 39, then line 30: the call returned False, the loop goes on
ChildFailed ==
    /\ Running /\ Top.at = "call"
    /\ ret.kind # "none"
    /\ ~ Truthy(ret)
    /\ stack' = [stack EXCEPT ![Len(stack)].i = NextIndex(Top.i),
                              ![Len(stack)].at = "loop"]
    /\ ret' = NoRet
    /\ UNCHANGED <<heap, clues, pc, last, nsets>>

\* line 42: every candidate was tried, False is returned
Exhausted ==
    /\ Running /\ Top.at = "loop"
    /\ Top.i = N
    /\ Return([kind |-> "False", ref |-> Self])
    /\ UNCHANGED <<clues, pc, last, nsets>>

\* Puzzle.solve, line 93, on a Puzzle: self.data = solution.data
SolveStore ==
    /\ pc = "solving" /\ stack = << >>
    /\ ret.kind = "Puzzle"
    /\ heap' = [heap EXCEPT ![Self] = heap[ret.ref]]
    /\ pc' = "done"
    /\ last' = [NoCall EXCEPT !.op = "solve"]
    /\ UNCHANGED <<clues, stack, ret, nsets>>

\* Puzzle.solve, line 93, on False: False has no attribute data
SolveRaise ==
    /\ pc = "solving" /\ stack = << >>
    /\ ret.kind = "False"
    /\ pc' = "raised"
    /\ last' = [NoCall EXCEPT !.op = "solve", !.exc = "AttributeError"]
    /\ UNCHANGED <<heap, clues, stack, ret, nsets>>

\* the constructed grids solve is called on: the all-zero grid, and the
\* base grid with the first MaxBlank cells of SolveHoles empty, as in the
\* base grid, or exchanged
SolveHoles == << <<0, 0>>, <<0, 1>>, <<3, 0>>, <<3, 1>>, <<8, 8>>, <<8, 5>> >>
SolveHoleVals == {0, 1, 2}
SolveInputs == {AllZero} \cup Family(SolveHoles, MaxBlank, SolveHoleVals)

Init ==
    /\ clues \in SolveInputs
    /\ Constructible(clues)
    /\ heap = [o \in {Self} |-> clues]
    /\ stack = << >>
    /\ ret = NoRet
    /\ pc = "idle"
    /\ last = NoCall
    /\ nsets = 0

Next ==
    \/ Solve
    \/ ReturnAtEnd
    \/ SkipClue
    \/ SkipReturn
    \/ EnterLoop
    \/ CandidateRejected
    \/ CandidateLast
    \/ CandidateRecurse
    \/ ChildSucceeded
    \/ ChildFailed
    \/ Exhausted
    \/ SolveStore
    \/ SolveRaise

\* Puzzle.solve called on a constructed grid
Spec == Init /\ [][Next]_vars

\* the interpreter runs one thread and always takes the next step of a
\* call that has one
SpecLive == Init /\ [][Next]_vars /\ WF_vars(Next)

----------------------------------------------------------------------------
(* What the claims speak of, stated on the table itself.                   *)

Cells == Idx \X Idx

\* two cells share a row, a column or a 3x3 block
SameUnit(p, q) ==
    \/ p[1] = q[1]
    \/ p[2] = q[2]
    \/ (p[1] \div 3 = q[1] \div 3 /\ p[2] \div 3 = q[2] \div 3)

\* the cells that share a row, a column or a block with a cell (itself
\* among them)
UnitCells == [p \in Cells |-> {q \in Cells : SameUnit(p, q)}]

\* the 9 rows, 9 columns and 9 blocks, each a set of cells
Units ==
    {{<<r, c>> : c \in Idx} : r \in Idx}
        \cup {{<<r, c>> : r \in Idx} : c \in Idx}
        \cup {{<<3 * br + i, 3 * bc + j>> : i \in 0 .. 2, j \in 0 .. 2} :
                 br \in 0 .. 2, bc \in 0 .. 2}

\* no two distinct non-zero cells of a row, column or block are equal: the
\* non-zero cells of each hold as many values as there are such cells
NoDuplicates(d) ==
    \A u \in Units :
        Cardinality({d[p[1]][p[2]] : p \in u} \ {0})
            = Cardinality({p \in u : d[p[1]][p[2]] # 0})

\* v is held by a cell of the row, column or block of (row, col)
Present(d, row, col, v) ==
    \E q \in UnitCells[<<row, col>>] : d[q[1]][q[2]] = v

\* v is held by a cell of the row, column or block other than (row, col)
PresentElsewhere(d, row, col, v) ==
    \E q \in UnitCells[<<row, col>>] \ {<<row, col>>} : d[q[1]][q[2]] = v

\* every row and every column holds each digit 1..9 exactly once
FullLatin(d) ==
    /\ \A r \in Idx : {d[r][c] : c \in Idx} = 1 .. 9
    /\ \A c \in Idx : {d[r][c] : r \in Idx} = 1 .. 9

\* every cell is in 1..9 and every row, column and 3x3 block holds each
\* digit 1..9 exactly once
ValidSolution(d) ==
    /\ \A r \in Idx : {d[r][c] : c \in Idx} = 1 .. 9
    /\ \A c \in Idx : {d[r][c] : r \in Idx} = 1 .. 9
    /\ \A br \in 0 .. 2, bc \in 0 .. 2 :
           {d[3 * br + i][3 * bc + j] : i \in 0 .. 2, j \in 0 .. 2} = 1 .. 9

EmptyCells(g) == {p \in Cells : g[p[1]][p[2]] = 0}

\* the grid g with its empty cells given the digits of f
Fill(g, f) ==
    [r \in Idx |-> [c \in Idx |->
        IF g[r][c] = 0 THEN f[<<r, c>>] ELSE g[r][c]]]

\* the assignments of digits to the empty cells of g that satisfy every
\* row, column and block constraint
Completions(g) ==
    {f \in [EmptyCells(g) -> 1 .. 9] : ValidSolution(Fill(g, f))}

HasCompletion(g) ==
    \E f \in [EmptyCells(g) -> 1 .. 9] : ValidSolution(Fill(g, f))

\* a comes before b when the cells are read in row-major order
LexLess(a, b) ==
    \E p \in Cells :
        /\ a[p[1]][p[2]] < b[p[1]][p[2]]
        /\ \A q \in Cells :
               (q[1] * N + q[2] < p[1] * N + p[2])
                   => a[q[1]][q[2]] = b[q[1]][q[2]]

\* two equal non-zero clues in one row
RowDuplicate(d) ==
    \E r \in Idx, c1 \in Idx, c2 \in Idx :
        c1 # c2 /\ d[r][c1] # 0 /\ d[r][c1] = d[r][c2]

\* _solve_puzzle(self, 0, 0) has returned to Puzzle.solve
Returned == pc = "solving" /\ stack = << >> /\ ret.kind # "none"
ReturnedGrid == Returned /\ ret.kind = "Puzzle"
Result == heap[ret.ref]

----------------------------------------------------------------------------
(* Claims about the grid API.                                              *)

\* C4: after any sequence of set operations on a constructed grid, every
\* cell value lies in 0..9.  (The code writes any integer that is not yet
\* in the row, column and block, so this is violated.)
C4_CellsInRange ==
    \A r \in Idx, c \in Idx : data[r][c] \in 0 .. 9

\* C5: when the constructed grid has no two equal non-zero cells in a row,
\* column or block, no grid reached by set operations has: a set that would
\* create a duplicate is rejected and not applied.
C5_UniquenessPreserved ==
    NoDuplicates(clues) => NoDuplicates(data)

\* C5's case: after a successful set, a set of a digit that another cell of
\* a shared row, column or block holds was rejected
C5_Witness ==
    /\ NoDuplicates(clues)
    /\ nsets = 2
    /\ data # clues
    /\ last.op = "setitem" /\ last.exc = "InvalidMove"
    /\ last.value # 0
    /\ PresentElsewhere(data, last.row, last.col, last.value)

\* C6: a set(row, col, value) whose value a cell of that row, column or
\* block holds fails with InvalidMove, and every cell keeps its value: a set
\* step either raises InvalidMove and leaves the table as it was, or its
\* value was in none of the three.
C6_RejectedSetLeavesGrid ==
    [][(nsets' = nsets + 1 /\ last'.op = "setitem")
       => \/ (last'.exc = "InvalidMove" /\ heap'[Self] = data)
          \/ ~ Present(data, last'.row, last'.col, last'.value)]_vars

\* C6's case: a set of a value present in the row, column or block was made
\* and raised InvalidMove
C6_Witness ==
    /\ last.op = "setitem"
    /\ last.exc = "InvalidMove"
    /\ Present(data, last.row, last.col, last.value)

\* C7 as stated: check_valid_move is true iff no cell other than (row, col)
\* in its row, column or block holds value, whatever (row, col) holds.  (The
\* loops of check_valid_move run over (row, col) too, so this is violated
\* when (row, col) itself holds value.)
C7_OtherCellsOnly ==
    last.op = "check_valid_move"
        => (last.result = "True"
                <=> ~ PresentElsewhere(data, last.row, last.col, last.value))

\* C7 amended: check_valid_move is true iff no cell of the row, column or
\* block of (row, col), the cell (row, col) included, holds value.
C7_AllCellsOfUnits ==
    last.op = "check_valid_move"
        => (last.result = "True"
                <=> ~ Present(data, last.row, last.col, last.value))

\* C7's case: the value asked about is held by (row, col) only, and the
\* answer is false
C7_Witness ==
    /\ last.op = "check_valid_move"
    /\ last.result = "False"
    /\ data[last.row][last.col] = last.value
    /\ ~ PresentElsewhere(data, last.row, last.col, last.value)

\* C8: on a grid reached through set operations from a grid without
\* duplicates, complete() is true iff every cell is non-zero and every row
\* and column holds each digit 1..9 exactly once.  (A written 10 makes up
\* for an empty cell, see C4, so this is violated.)
C8_CompleteIffLatin ==
    (last.op = "complete" /\ NoDuplicates(clues))
        => (last.result = "True" <=> FullLatin(data))

----------------------------------------------------------------------------
(* Claims about the solver.                                                *)

\* C1: for a constructed grid without duplicates, whenever _solve_puzzle
\* started at (0,0) returns a grid, every cell of it is in 1..9, every row,
\* column and block holds each digit exactly once, and complete() is true.
C1_ReturnedGridIsSolved ==
    (ReturnedGrid /\ NoDuplicates(clues))
        => (ValidSolution(Result) /\ complete(Result))

\* C1's case: the solver filled empty cells and returned a grid
C1_Witness ==
    /\ ReturnedGrid
    /\ NoDuplicates(clues)
    /\ clues # AllZero
    /\ Cardinality(EmptyCells(clues)) >= 2

\* C2: for a constructed grid without duplicates, the solver returns False
\* iff no assignment of digits to the empty cells satisfies every row,
\* column and block constraint; the all-zero grid yields a grid.  (For the
\* all-zero grid the returned grid is itself the assignment that exists.)
C2_FailureIffNoCompletion ==
    (Returned /\ NoDuplicates(clues))
        => IF clues = AllZero
           THEN ret.kind = "Puzzle" /\ ValidSolution(Result)
           ELSE (ret.kind = "False" <=> ~ HasCompletion(clues))

\* C2's case: the solver returned False for a grid without duplicates
C2_Witness ==
    /\ Returned
    /\ NoDuplicates(clues)
    /\ ret.kind = "False"

\* C3: Puzzle.solve on a grid without a valid completion never raises an
\* error.  (solve reads solution.data of the False that _solve_puzzle
\* returned, which raises AttributeError, so this is violated.)
C3_SolveNeverRaises ==
    pc = "raised" => HasCompletion(clues)

\* C9: for a constructed grid with two equal non-zero clues in one row, the
\* solver returns False and never a grid.  (Clues are skipped unchecked, so
\* this is violated whenever the rest can be filled.)
C9_RowDuplicateFails ==
    (Returned /\ RowDuplicate(clues)) => ret.kind = "False"

\* C10: the solver returns the first valid completion in scan order: when
\* the constructed grid has valid completions, the returned grid is one of
\* them and no valid completion comes before it when the cells are read in
\* row-major order.  (Stated for the grids other than the all-zero grid,
\* whose completions are too many to list.)
C10_FirstCompletion ==
    (Returned /\ clues # AllZero /\ HasCompletion(clues))
        => /\ ret.kind = "Puzzle"
           /\ \E f \in Completions(clues) : Fill(clues, f) = Result
           /\ \A f \in Completions(clues) : ~ LexLess(Fill(clues, f), Result)

\* C10's case: the grid has several valid completions and the solver
\* returned one
C10_Witness ==
    /\ ReturnedGrid
    /\ clues # AllZero
    /\ Cardinality(Completions(clues)) >= 2

\* every cell that is non-zero in the initial grid holds the same value in d
KeepsClues(d) ==
    \A p \in Cells :
        clues[p[1]][p[2]] # 0 => d[p[1]][p[2]] = clues[p[1]][p[2]]

\* C11: whenever the solver returns a grid, every cell that was non-zero in
\* the initial grid holds the same value in the returned grid; and the
\* solver only ever changes cells that were empty at the start: the grid of
\* the running invocation, the only one that is written, holds the initial
\* value in those cells at all times.
C11_CluesKept ==
    /\ ReturnedGrid => KeepsClues(Result)
    /\ Running => KeepsClues(heap[Top.puzzle])

\* C11's case: the solver returned a grid for an initial grid that had both
\* clues and empty cells
C11_Witness ==
    /\ ReturnedGrid
    /\ \E p \in Cells : clues[p[1]][p[2]] # 0
    /\ \E p \in Cells : clues[p[1]][p[2]] = 0

\* every cell of d is in 1..9 and no row, column or block repeats a value
FullValid(d) ==
    /\ \A p \in Cells : d[p[1]][p[2]] \in 1..N
    /\ NoDuplicates(d)

\* C12: solving a grid that is already fully filled and valid ends without
\* an error and with a grid equal to the input in all 81 cells: the solver
\* returns such a grid and solve leaves it in the object.
C12_FullGridUnchanged ==
    FullValid(clues)
        => /\ Returned => (ret.kind = "Puzzle" /\ Result = clues)
           /\ pc # "raised"
           /\ pc = "done" => data = clues

\* C12's case: solve has ended on a fully filled valid grid
C12_Witness ==
    /\ FullValid(clues)
    /\ pc = "done"

\* how far the body of _solve_puzzle has got in frame f: line 23 or 27, the
\* call of line 28, the i-th pass of the loop, the call of line 39 in it
Progress(f) ==
    CASE f.at = "entry" -> 0
      [] f.at = "skip"  -> 1
      [] f.at = "loop"  -> 2 + 2 * f.i
      [] f.at = "call"  -> 3 + 2 * f.i

\* C13: for every constructed grid the search eventually ends, with the
\* solver having returned a grid or False; and no invocation goes back: a
\* step that changes a frame moves it forward in its body, so the loop of
\* a frame never takes the same candidate at its cursor twice.
C13_SearchEnds ==
    /\ <>Returned
    /\ [][\A k \in DOMAIN stack \cap DOMAIN stack' :
             /\ stack'[k].row = stack[k].row
             /\ stack'[k].col = stack[k].col
             /\ stack'[k].i \in 0..N
             /\ stack'[k] # stack[k]
                    => Progress(stack'[k]) > Progress(stack[k])]_vars

\* C13's case: the search has ended with False after a frame tried all
\* nine candidates
C13_Witness ==
    /\ Returned
    /\ ret.kind = "False"
    /\ \E p \in Cells : clues[p[1]][p[2]] = 0

\* the grid objects the solver has made with line 21 and not yet dropped
Copies == DOMAIN heap \ {Self}

\* C14 as stated: at every point of a solve at most 81 invocations of the
\* solver are active and at most 81 grid copies made by it are live.  (When
\* the last cell is a clue, the frame of (8,8) calls on to (9,0): that is
\* the 82nd invocation and it makes the 82nd copy before line 23 returns.)
C14_AtMost81 ==
    /\ Len(stack) <= N * N
    /\ Cardinality(Copies) <= N * N

\* C14 amended: at most 82 invocations are active and at most 82 copies
\* are live; at most 81 of each when the last cell of the initial grid is
\* empty.
C14_AtMost82 ==
    /\ Len(stack) <= N * N + 1
    /\ Cardinality(Copies) <= N * N + 1
    /\ clues[N - 1][N - 1] = 0
           => /\ Len(stack) <= N * N
              /\ Cardinality(Copies) <= N * N

\* C14's case: 82 invocations are active, each with its copy
C14_Witness ==
    /\ Len(stack) = N * N + 1
    /\ Cardinality(Copies) = N * N + 1

\* ---- get and set at any pair of integers --------------------------------
\*
\* coord is only asserted to be a pair (lines 114-115, 138-139), so row and
\* col index the lists of self.data as Python indexes a list of 9: -9..-1
\* count from the end, anything else outside 0..8 raises IndexError.

InList(k) == k \in (0 - N)..(N - 1)
ListIndex(k) == IF k < 0 THEN k + N ELSE k

\* lines 113-117: self.data[row][col]
getitem_at(d, row, col) ==
    IF InList(row) /\ InList(col)
    THEN [exc |-> "none", value |-> d[ListIndex(row)][ListIndex(col)]]
    ELSE [exc |-> "IndexError", value |-> 0]

\* the k-th cell check_valid_move reads, k in 1..27: lines 123 and 125 for
\* i = 0..8 in turn, then line 131 over the block of line 128
Read(row, col, k) ==
    IF k <= 2 * N
    THEN IF k % 2 = 1 THEN << (k - 1) \div 2, col >>
                      ELSE << row, (k - 2) \div 2 >>
    ELSE << (row \div 3) * 3 + ((k - 2 * N - 1) \div 3),
            (col \div 3) * 3 + ((k - 2 * N - 1) % 3) >>

\* what the k-th read does to the run of check_valid_move: it raises, it
\* finds v, or the run goes on
ReadStep(d, row, col, v, k) ==
    LET rc == Read(row, col, k)
    IN  IF ~ (InList(rc[1]) /\ InList(rc[2])) THEN "IndexError"
        ELSE IF d[ListIndex(rc[1])][ListIndex(rc[2])] = v THEN "False"
        ELSE "on"

\* lines 120-134 with the reads that raise: "True", "False" or "IndexError",
\* decided by the first read that raises or finds v
check_valid_move_at(d, row, col, v) ==
    LET stops == {k \in 1..(3 * N) : ReadStep(d, row, col, v, k) # "on"}
    IN  IF stops = {} THEN "True"
        ELSE ReadStep(d, row, col, v,
                      CHOOSE x \in stops : \A y \in stops : x <= y)

\* lines 137-146 with the reads and the write that raise
setitem_at(d, row, col, value) ==
    LET ok == check_valid_move_at(d, row, col, value)
    IN  CASE ok = "IndexError" -> [exc |-> "IndexError", data |-> d]
          [] ok = "False" -> [exc |-> "InvalidMove", data |-> d]
          [] ok = "True" ->
                [exc |-> "none",
                 data |-> [d EXCEPT ![ListIndex(row)][ListIndex(col)] = value]]

\* the indices tried: the first and last index of the list counted from
\* either end, and Excess indices beyond the list on either side
Indices ==
    ((0 - N - Excess)..(0 - N)) \cup {-1, 0} \cup ((N - 1)..(N - 1 + Excess))

\* the constructed grids the calls are made on: the base grid with its
\* first and last cell empty, as in the base grid (1, 2) or exchanged
IndexHoles == << <<0, 0>>, <<8, 8>> >>
IndexHoleVals == {0, 1, 2}
IndexInputs == Family(IndexHoles, Len(IndexHoles), IndexHoleVals)

\* the values written: those of the holes and one that every unit holds
IndexVals == {1, 2, 5}

InitIndexing ==
    /\ clues \in IndexInputs
    /\ Constructible(clues)
    /\ heap = [o \in {Self} |-> clues]
    /\ stack = << >>
    /\ ret = NoRet
    /\ pc = "idle"
    /\ last = NoCall
    /\ nsets = 0

\* puzzle[row, col]
GetItemAt(row, col) ==
    LET r == getitem_at(data, row, col)
    IN  /\ pc = "idle"
        /\ last' = [op |-> "getitem", row |-> row, col |-> col, value |-> 0,
                     result |-> IF r.exc = "none" THEN r.value ELSE "None",
                     exc |-> r.exc]
        /\ UNCHANGED <<heap, clues, stack, ret, pc, nsets>>

\* puzzle[row, col] = value
SetItemAt(row, col, value) ==
    LET r == setitem_at(data, row, col, value)
    IN  /\ pc = "idle"
        /\ nsets < MaxSets
        /\ nsets' = nsets + 1
        /\ heap' = [heap EXCEPT ![Self] = r.data]
        /\ last' = [op |-> "setitem", row |-> row, col |-> col,
                     value |-> value, result |-> "None", exc |-> r.exc]
        /\ UNCHANGED <<clues, stack, ret, pc>>

NextIndexing ==
    \/ \E row \in Indices, col \in Indices : GetItemAt(row, col)
    \/ \E row \in Indices, col \in Indices, value \in IndexVals :
           SetItemAt(row, col, value)

SpecIndexing == InitIndexing /\ [][NextIndexing]_vars

\* C15: a get or set whose row or column lies outside 0..8, negative
\* indices included, always fails fatally: it ends with an error other than
\* the recoverable InvalidMove, returns no cell value and leaves every cell
\* as it was.  (Python takes -9..-1 as indices from the end, so such a get
\* returns a cell and such a set can write one; and a set with an index
\* that no list has raises InvalidMove when line 123 finds the value
\* before line 125 uses the index.)
C15_OutsideFailsFatally ==
    [][(last'.op \in {"getitem", "setitem"}
            /\ (last'.row \notin Idx \/ last'.col \notin Idx))
          => /\ last'.exc = "IndexError"
             /\ last'.result = "None"
             /\ heap' = heap]_vars

\* the running frame is in its loop after a candidate it placed has failed
AfterFailedCandidate ==
    /\ Running
    /\ Top.at = "loop"
    /\ Top.placed

\* C16 as stated: when the recursive attempt for a placed candidate has
\* failed, the grid on which the next candidate is validated and written
\* equals, in all 81 cells, the cursor cell included, the grid the frame
\* held before the failed candidate was placed.  (Line 32 wrote the frame's
\* own copy and nothing takes the write back.)
C16_GridRestored ==
    AfterFailedCandidate => heap[Top.puzzle] = Top.prev

\* C16 amended: that grid equals the grid the frame held before the failed
\* candidate was placed in every cell but the cursor cell, which still
\* holds the failed candidate, a value the loop has already tried.
C16_GridRestoredButCursor ==
    AfterFailedCandidate
        => /\ \A p \in Cells \ {<<Top.row, Top.col>>} :
                  heap[Top.puzzle][p[1]][p[2]] = Top.prev[p[1]][p[2]]
           /\ \E j \in 0..(Top.i - 1) :
                  heap[Top.puzzle][Top.row][Top.col] = Candidate(j)
           /\ heap[Top.puzzle][Top.row][Top.col] # Top.prev[Top.row][Top.col]

\* C16's case: a placed candidate has failed and the loop has a next
\* candidate to try
C16_Witness ==
    /\ AfterFailedCandidate
    /\ Top.i < N

\* C17: an invocation of the solver never changes the grid it was handed:
\* no step taken while a call of _solve_puzzle is active, its return with a
\* grid or with False included, changes any cell of the grid that call was
\* given, so the caller finds its grid as it was before the call.
C17_ArgumentUnchanged ==
    [][\A k \in DOMAIN stack :
           /\ stack[k].arg \in DOMAIN heap'
           /\ heap'[stack[k].arg] = heap[stack[k].arg]]_vars

\* C17's case: a call made on a frame's grid has returned False to that
\* frame, whose loop goes on
C17_Witness ==
    /\ Running
    /\ Top.at = "call"
    /\ ret.kind = "False"
    /\ Top.i < N - 1

\* C18: when Puzzle.solve is invoked on a grid for which the search yields
\* False, the 81 cells of the grid object are the same after the invocation
\* as before it; the search itself never writes the object.
C18_FailedSolveKeepsGrid ==
    pc \in {"solving", "raised"} => data = clues

\* C18's case: solve has ended with the search yielding False on a grid
\* that had empty cells to try candidates in
C18_Witness ==
    /\ pc = "raised"
    /\ \E p \in Cells : clues[p[1]][p[2]] = 0

\* the row-major position of the cell (row, col)
Position(row, col) == row * N + col

\* C19: on entry to the solver frame whose cursor is at row-major position
\* k, every cell before k is non-zero and every cell at k or later holds
\* the value it had in the initial grid.
C19_EntryGrid ==
    (Running /\ Top.at = "entry")
        => \A p \in Cells :
               IF Position(p[1], p[2]) < Position(Top.row, Top.col)
               THEN heap[Top.puzzle][p[1]][p[2]] # 0
               ELSE heap[Top.puzzle][p[1]][p[2]] = clues[p[1]][p[2]]

\* C19's case: a frame is entered past cells that the search has filled
\* and before cells that are still empty
C19_Witness ==
    /\ Running
    /\ Top.at = "entry"
    /\ \E p \in Cells :
           /\ Position(p[1], p[2]) < Position(Top.row, Top.col)
           /\ clues[p[1]][p[2]] = 0
    /\ \E p \in Cells :
           /\ Position(p[1], p[2]) > Position(Top.row, Top.col)
           /\ clues[p[1]][p[2]] = 0

====
